---- MODULE Spec2Model ----
(***************************************************************************)
(* Keeper valuation backend (src/src/keeper_recommendations/app.py).       *)
(*                                                                         *)
(* Three specifications over one set of variables:                         *)
(*   SpecSpan  the pure capital-weighting functions applied to inputs      *)
(*             drawn from bounded sets;                                    *)
(*   SpecRank  normalize_value_and_sort_weighted applied to a collaborator *)
(*             response, then to its own output;                           *)
(*   Spec      lambda_handler: validation, the external call, ranking.     *)
(*                                                                         *)
(* Weights and weighted sums are Python floats with at most two decimals;  *)
(* they are kept here in exact hundredths (5.0 is 500), capital_weight in  *)
(* thousandths.                                                            *)
(***************************************************************************)
EXTENDS Integers, Sequences, FiniteSets, TLC

VARIABLES
    \* SpecSpan: the arguments of weighted_span_sum and its result
    span_pc, adp_overall, keep_overall, span_teams, span_value,
    \* SpecRank / Spec: the ranking step's arguments and results
    rank_pc, data, keepers_allowed, teams, ranked, reranked,
    \* Spec: lambda_handler
    pc, event, compact_players, next_player, response, called, valued,
    status, error

span_vars == <<span_pc, adp_overall, keep_overall, span_teams, span_value>>
rank_vars == <<rank_pc, data, keepers_allowed, teams, ranked, reranked>>
handler_vars ==
    <<pc, event, compact_players, next_player, response, called, valued,
      status, error>>
vars == <<span_vars, rank_vars, handler_vars>>

----------------------------------------------------------------------------
\* Bounds of the model

MaxPick == 56
NegPick == 1
MaxTeams == 3

----------------------------------------------------------------------------
\* Python helpers

Max(a, b) == IF a >= b THEN a ELSE b

Min(a, b) == IF a <= b THEN a ELSE b

Abs(a) == IF a >= 0 THEN a ELSE 0 - a

----------------------------------------------------------------------------
\* Capital weighting (per pick)

\* Map overall pick number to draft round (1-indexed).
round_from_overall(overall, t) == ((Max(1, overall) - 1) \div Max(1, t)) + 1

\* Map overall pick to 1..teams within the round.
pick_in_round(overall, t) == ((Max(1, overall) - 1) % Max(1, t)) + 1

\* The weight table, in hundredths.
ROUND_WEIGHTS ==
    <<500, 400, 350, 300, 250, 200, 180, 160, 140, 120,
      110, 105, 100, 95, 90, 85, 80, 75, 70, 65>>

\* Faulty variant: the taper has no floor and reaches zero and below
weight_for_round_no_floor(r) ==
    IF r \in DOMAIN ROUND_WEIGHTS
    THEN ROUND_WEIGHTS[r]
    ELSE 60 - 10 * Max(0, r - 20)

\* Faulty variant: no taper beyond the table
weight_for_round_flat(r) ==
    IF r \in DOMAIN ROUND_WEIGHTS THEN ROUND_WEIGHTS[r] ELSE 55

weight_for_round(r) ==
    IF r \in DOMAIN ROUND_WEIGHTS
    THEN ROUND_WEIGHTS[r]
    ELSE Max(55, 60 - 1 * Max(0, r - 20))

\* for r in range(lo, hi): total += teams * weight_for_round(r)
RECURSIVE middle_rounds(_, _, _)
middle_rounds(lo, hi, t) ==
    IF lo >= hi THEN 0
    ELSE t * weight_for_round(lo) + middle_rounds(lo + 1, hi, t)

span_total(start, end, t) ==
    LET start_round == round_from_overall(start, t)
        start_pick == pick_in_round(start, t)
        end_round == round_from_overall(end, t)
        end_pick == pick_in_round(end, t)
    IN  IF start_round = end_round
        THEN Max(0, end_pick - start_pick) * weight_for_round(start_round)
        ELSE LET first_count == Max(0, t - start_pick)
             IN  (IF first_count # 0
                  THEN first_count * weight_for_round(start_round) ELSE 0)
                 + middle_rounds(start_round + 1, end_round, t)
                 + (IF end_pick > 0
                    THEN end_pick * weight_for_round(end_round) ELSE 0)

\* Faulty variant: the direction sign is not applied
weighted_span_sum_unsigned(adp, keep, t) ==
    IF keep = adp THEN 0
    ELSE span_total(Min(adp, keep), Max(adp, keep), t)

\* Faulty variant: the first partial round is left out
weighted_span_sum_no_first(adp, keep, t) ==
    IF keep = adp THEN 0
    ELSE LET start == Min(adp, keep)
             end == Max(adp, keep)
             sr == round_from_overall(start, t)
             er == round_from_overall(end, t)
             sign == IF keep > adp THEN 1 ELSE 0 - 1
         IN  sign * (IF sr = er
                     THEN span_total(start, end, t)
                     ELSE middle_rounds(sr + 1, er, t)
                          + pick_in_round(end, t) * weight_for_round(er))

weighted_span_sum(adp, keep, t) ==
    IF keep = adp THEN 0
    ELSE IF keep > adp
         THEN span_total(adp, keep, t)
         ELSE (0 - 1) * span_total(keep, adp, t)

----------------------------------------------------------------------------
\* JSON values as the handler receives them.  A number is kept in halves
\* (h = 3 is 1.5), a numeric string holds an integer literal ("3" is h = 6),
\* "bad" is a string that is no integer literal, "none" is null or a missing key.

JNum(h) == [k |-> "num", h |-> h]

JStr(n) == [k |-> "str", h |-> 2 * n]

JBad == [k |-> "bad", h |-> 0]

JNone == [k |-> "none", h |-> 0]

\* int(v) raises for None and for a non-numeric string.
PyIntOk(v) == v.k \in {"num", "str"}

\* int(v): a float is truncated toward zero, an integer literal is parsed.
PyInt(v) == IF v.h >= 0 THEN v.h \div 2 ELSE 0 - ((0 - v.h) \div 2)

\* A present field is <<x>>, an absent one <<>>.
Absent == <<>>

Present(x) == <<x>>

\* dict.get(key, default)
Get(field, default) == IF field = Absent THEN default ELSE field[1]

\* round(num / den, 3) in thousandths, for num in hundredths: ties to even.
RoundDiv(num, den) ==
    LET q == num \div den
        r == num % den
    IN  IF 2 * r > den THEN q + 1
        ELSE IF 2 * r < den THEN q
        ELSE IF q % 2 = 0 THEN q ELSE q + 1

----------------------------------------------------------------------------
\* Ranking and selection

\* Faulty variant: the fields the collaborator supplied are left as they are
fix_entry_keeps_supplied(it, t) ==
    LET ko == PyInt(it.keep_overall)
        adp == PyInt(it.estimated_adp_overall)
        raw == ko - adp
        weighted == weighted_span_sum(adp, ko, t)
        avg_w == IF raw # 0 THEN RoundDiv(10 * Abs(weighted), Abs(raw)) ELSE 0
    IN  [it EXCEPT !.value_vs_adp = IF @ = Absent THEN Present(raw) ELSE @,
                   !.capital_weight = IF @ = Absent THEN Present(avg_w) ELSE @,
                   !.adjusted_value = IF @ = Absent THEN Present(weighted) ELSE @]

\* The body of fix_list's loop for an entry whose numbers coerce.
fix_entry(it, t) ==
    LET ko == PyInt(it.keep_overall)
        adp == PyInt(it.estimated_adp_overall)
        raw == ko - adp
        weighted == weighted_span_sum(adp, ko, t)
        avg_w == IF raw # 0 THEN RoundDiv(10 * Abs(weighted), Abs(raw)) ELSE 0
    IN  [it EXCEPT !.value_vs_adp = Present(raw),
                   !.capital_weight = Present(avg_w),
                   !.adjusted_value = Present(weighted)]

\* Faulty variant: only keep_overall is coerced inside the try
coerces_keep_only(it) == PyIntOk(it.keep_overall)

\* try: int(keep_overall), int(estimated_adp_overall)  except: continue
coerces(it) == PyIntOk(it.keep_overall) /\ PyIntOk(it.estimated_adp_overall)

RECURSIVE fix_list(_, _)
fix_list(items, t) ==
    IF items = <<>> THEN <<>>
    ELSE LET rest == fix_list(Tail(items), t)
         IN  IF coerces(Head(items))
             THEN <<fix_entry(Head(items), t)>> \o rest
             ELSE rest

\* Faulty variant: the ADP is not negated
sort_key_larger_adp_first(x) ==
    <<Get(x.adjusted_value, 0 - 1000000000),
      IF x.estimated_adp_overall.k = "none"
      THEN 999999 ELSE PyInt(x.estimated_adp_overall)>>

\* key=lambda x: (x.get("adjusted_value", -1e12),
\*                -int(x.get("estimated_adp_overall", 999999)))
\* The default -1e12 is below every weighted sum; it is kept here as -1e9,
\* the model's integers being 32 bits wide.
sort_key(x) ==
    <<Get(x.adjusted_value, 0 - 1000000000),
      0 - (IF x.estimated_adp_overall.k = "none"
           THEN 999999 ELSE PyInt(x.estimated_adp_overall))>>

KeyGreater(a, b) == a[1] > b[1] \/ (a[1] = b[1] /\ a[2] > b[2])

\* Faulty variant: an element goes before the elements with an equal key
insert_sorted_unstable(sorted, x) ==
    LET ahead == {i \in DOMAIN sorted : KeyGreater(sort_key(sorted[i]), sort_key(x))}
        n == Cardinality(ahead)
    IN  SubSeq(sorted, 1, n) \o <<x>> \o SubSeq(sorted, n + 1, Len(sorted))

\* list.sort(key=..., reverse=True) is stable: an element goes behind every
\* element already placed whose key is greater than or equal to its own.
insert_sorted(sorted, x) ==
    LET ahead == {i \in DOMAIN sorted : ~KeyGreater(sort_key(x), sort_key(sorted[i]))}
        n == Cardinality(ahead)
    IN  SubSeq(sorted, 1, n) \o <<x>> \o SubSeq(sorted, n + 1, Len(sorted))

RECURSIVE sort_desc(_)
sort_desc(items) ==
    IF items = <<>> THEN <<>>
    ELSE insert_sorted(sort_desc(SubSeq(items, 1, Len(items) - 1)),
                       items[Len(items)])

\* Faulty variant: items[:k + 1]
slice_to_off_by_one(items, k) ==
    SubSeq(items, 1, Min(Len(items), k + 1))

\* items[:k], for negative k too
slice_to(items, k) ==
    IF k >= 0 THEN SubSeq(items, 1, Min(Len(items), k))
    ELSE SubSeq(items, 1, Max(0, Len(items) + k))

\* The collaborator's parsed content.  top: the JSON type of the whole value;
\* recs: the "recommendations" member; keep, bench: the members of that object.
\*   recs  "missing"  the key is absent
\*         "falsy"    null, [], "", 0 or false
\*         "other"    any other value that is not an object
\*         "object"   an object
\*   kind  "missing"  absent, null or another falsy value
\*         "scalar"   a non-zero number or true: not iterable
\*         "string"   a non-empty string: iterates over its characters
\*         "array"    a list of entries (items)
Member(kind, items) == [kind |-> kind, items |-> items]

Content(top, recs, keep, bench) ==
    [top |-> top, recs |-> recs, keep |-> keep, bench |-> bench]

\* fix_list(recs.get(name)): "for it in items or []"; the characters of a string
\* have no .get and are skipped.
fixed_member(m, t) == IF m.kind = "array" THEN fix_list(m.items, t) ELSE <<>>

\* Faulty variant: a recommendations member that is null or another falsy value is
\* replaced by a fresh object instead of being assigned into
normalize_raises_lenient(d) ==
    \/ d.top # "object"
    \/ d.recs = "other"
    \/ d.recs = "object" /\ d.keep.kind = "scalar"
    \/ d.recs = "object" /\ d.bench.kind = "scalar"

\* Whether normalize_value_and_sort_weighted raises on this content.
normalize_raises(d) ==
    \/ d.top # "object"                  \* data.get: AttributeError
    \/ d.recs = "other"                  \* recs.get: AttributeError
    \/ d.recs = "falsy"                  \* data["recommendations"]["keep"] = keep: TypeError
    \/ d.recs = "object" /\ d.keep.kind = "scalar"     \* for it in items: TypeError
    \/ d.recs = "object" /\ d.bench.kind = "scalar"

Raised == [raised |-> TRUE, keep |-> <<>>, bench |-> <<>>]

normalize_value_and_sort_weighted(d, ka, t) ==
    IF normalize_raises(d) THEN Raised
    ELSE LET recs_keep == IF d.recs = "object" THEN d.keep ELSE Member("missing", <<>>)
             recs_bench == IF d.recs = "object" THEN d.bench ELSE Member("missing", <<>>)
         IN  [raised |-> FALSE,
              keep |-> slice_to(sort_desc(fixed_member(recs_keep, t)), ka),
              bench |-> sort_desc(fixed_member(recs_bench, t))]

\* The returned data, as content for a second application.
AsContent(r) ==
    Content("object", "object", Member("array", r.keep), Member("array", r.bench))

----------------------------------------------------------------------------
\* SpecSpan: weighted_span_sum applied to bounded inputs

Picks == (0 - NegPick)..MaxPick

TeamCounts == 1..MaxTeams

RankIdle ==
    /\ rank_pc = "idle" /\ data = <<>> /\ keepers_allowed = 0 /\ teams = 1
    /\ ranked = <<>> /\ reranked = <<>>

HandlerIdle ==
    /\ pc = "idle" /\ event = <<>> /\ compact_players = <<>> /\ next_player = 0
    /\ response = <<>> /\ called = FALSE /\ valued = FALSE
    /\ status = 0 /\ error = ""

SpanIdle ==
    /\ span_pc = "idle" /\ adp_overall = 0 /\ keep_overall = 0
    /\ span_teams = 1 /\ span_value = 0

SpanInit ==
    /\ span_pc = "start"
    /\ adp_overall \in Picks
    /\ keep_overall \in Picks
    /\ span_teams \in TeamCounts
    /\ span_value = 0
    /\ RankIdle
    /\ HandlerIdle

SpanSum ==
    /\ span_pc = "start"
    /\ span_value' = weighted_span_sum(adp_overall, keep_overall, span_teams)
    /\ span_pc' = "done"
    /\ UNCHANGED <<adp_overall, keep_overall, span_teams, rank_vars, handler_vars>>

SpanNext == SpanSum

SpecSpan == SpanInit /\ [][SpanNext]_vars

----------------------------------------------------------------------------
\* SpecRank: normalize_value_and_sort_weighted applied to a collaborator
\* response with well-formed shape, then applied again to its own output

MaxProposals == 2
MaxKeepers == 2

\* A value the collaborator may have put in a field the server recomputes.
Supplied == Present(77777)

KeepOveralls == {JNum(2), JStr(3), JBad}

AdpOveralls == {JNum(2), JNum(3), JNum(6), JNone}

Proposal(id, ko, adp, own) ==
    [player |-> id, keep_overall |-> ko, estimated_adp_overall |-> adp,
     value_vs_adp |-> own, capital_weight |-> own, adjusted_value |-> own]

\* The arrays of n proposals over the given values; the player of the i-th
\* entry is base + i, so that every entry of a response is told apart.
ProposalLists(n, base, kos, adps, own) ==
    {[i \in 1..n |-> Proposal(base + i, f[i][1], f[i][2], own)] :
        f \in [1..n -> kos \X adps]}

\* keep and bench arrays holding at most n proposals together.
Responses(n, kos, adps, own) ==
    UNION {UNION {{Content("object", "object",
                           Member("array", k), Member("array", b)) :
                     k \in ProposalLists(nk, 0, kos, adps, own),
                     b \in ProposalLists(nb, 100, kos, adps, own)} :
                  nb \in 0..(n - nk)} :
           nk \in 0..n}

RankInit ==
    /\ rank_pc = "start"
    /\ \E own \in {Absent, Supplied} :
          data \in Responses(MaxProposals, KeepOveralls, AdpOveralls, own)
    /\ keepers_allowed \in 0..MaxKeepers
    /\ teams \in TeamCounts
    /\ ranked = <<>>
    /\ reranked = <<>>
    /\ SpanIdle
    /\ HandlerIdle

Rank ==
    /\ rank_pc = "start"
    /\ ranked' = normalize_value_and_sort_weighted(data, keepers_allowed, teams)
    /\ rank_pc' = "ranked"
    /\ UNCHANGED <<data, keepers_allowed, teams, reranked, span_vars, handler_vars>>

Rerank ==
    /\ rank_pc = "ranked"
    /\ reranked' = normalize_value_and_sort_weighted(AsContent(ranked),
                                                     keepers_allowed, teams)
    /\ rank_pc' = "reranked"
    /\ UNCHANGED <<data, keepers_allowed, teams, ranked, span_vars, handler_vars>>

RankNext == Rank \/ Rerank

SpecRank == RankInit /\ [][RankNext]_vars

----------------------------------------------------------------------------
\* Spec: lambda_handler.  The members of the request are drawn when the
\* handler first inspects them: the body, then the league, then the players.

MaxPlayers == 2

\* league = body.get("league") or {}: a member that is JNone is an absent key.
League(t, fmt, qb, slot, ka) ==
    [teams |-> t, format |-> fmt, qb_slots |-> qb, your_slot |-> slot,
     keepers_allowed |-> ka]

NoLeague == League(JNone, JNone, JNone, JNone, JNone)

Leagues ==
    {League(t, fmt, qb, slot, ka) :
        t \in {JNone, JBad, JStr(1), JNum(2 * MaxTeams + 1)}
              \cup {JNum(2 * n) : n \in 0..MaxTeams},
        fmt \in {JNone, JBad},
        qb \in {JBad, JNum(2)},
        slot \in {JNum(2 * n) : n \in 0..(MaxTeams + 1)},
        ka \in {JNone} \cup {JNum(2 * n) : n \in (0 - 1)..MaxKeepers}}

\* A caller-supplied candidate: player is the name ("" when empty or missing),
\* round and pick are the members of meta.
Candidate(name, rd, pk, ko) ==
    [player |-> name, round |-> rd, pick |-> pk, keeper_overall |-> ko]

\* Round 2, pick 1, overall 3 (consistent in a league of 2 teams), and the same
\* candidate with one member missing, not a number, or negative.
Candidates ==
    {Candidate("A", JNum(4), JNum(2), JNum(6)),
     Candidate("", JNum(4), JNum(2), JNum(6)),
     Candidate("A", JNone, JNum(2), JNum(6)),
     Candidate("A", JBad, JNum(2), JNum(6)),
     Candidate("A", JNum(4), JNone, JNum(6)),
     Candidate("A", JNum(4), JNum(2), JNone),
     Candidate("A", JNum(4), JNum(2), JBad),
     Candidate("A", JNum(4), JNum(2), JNum(0 - 2))}

\* players = body.get("players") or []: a list, or a value that is no list.
PlayerInputs ==
    {[list |-> FALSE, items |-> <<>>]}
    \cup {[list |-> TRUE, items |-> l] :
            l \in UNION {[1..n -> Candidates] : n \in 0..MaxPlayers}}

\* What the external generation call yields: it raises, or returns content that
\* json.loads rejects, or content that parses.
Outcome(kind, content) == [kind |-> kind, content |-> content]

NoContent == Content("other", "missing", Member("missing", <<>>), Member("missing", <<>>))

OddMembers ==
    {Member("missing", <<>>), Member("scalar", <<>>), Member("string", <<>>),
     Member("array", <<Proposal(1, JNum(6), JNum(2), Supplied)>>),
     Member("array", <<Proposal(1, JBad, JNum(2), Supplied)>>)}

Contents ==
    Responses(MaxProposals, {JNum(6), JBad}, {JNum(2), JNone}, Supplied)
    \cup {Content("object", "object", k, b) : k \in OddMembers, b \in OddMembers}
    \cup {Content("object", r, Member("missing", <<>>), Member("missing", <<>>)) :
             r \in {"missing", "falsy", "other"}}
    \cup {NoContent}

Outcomes ==
    {Outcome("raises", NoContent), Outcome("invalid", NoContent)}
    \cup {Outcome("json", c) : c \in Contents}

Generic == "Failed to generate recommendations."

\* The league checks in the handler's order: required keys, int(), ranges.
\* The message of the first failing check, "" when the league passes.
league_error(lg) ==
    IF lg.teams = JNone THEN "league.teams is required"
    ELSE IF lg.format = JNone THEN "league.format is required"
    ELSE IF lg.qb_slots = JNone THEN "league.qb_slots is required"
    ELSE IF lg.your_slot = JNone THEN "league.your_slot is required"
    ELSE IF lg.keepers_allowed = JNone THEN "league.keepers_allowed is required"
    ELSE IF ~(PyIntOk(lg.teams) /\ PyIntOk(lg.keepers_allowed)
              /\ PyIntOk(lg.your_slot) /\ PyIntOk(lg.qb_slots))
    THEN "league.teams, league.keepers_allowed, league.qb_slots, and league.your_slot must be integers."
    ELSE IF \/ PyInt(lg.teams) <= 0
            \/ PyInt(lg.keepers_allowed) < 0
            \/ PyInt(lg.your_slot) <= 0
            \/ PyInt(lg.your_slot) > PyInt(lg.teams)
    THEN "Invalid league values (teams > 0, 0<=keepers_allowed, 1<=your_slot<=teams)."
    ELSE ""

\* if not name or rd is None or pk is None or keep_overall is None
lacks_member(p) ==
    \/ p.player = ""
    \/ p.round = JNone
    \/ p.pick = JNone
    \/ p.keeper_overall = JNone

\* int(keep_overall), int(rd), int(pk) while the dict is built: none is guarded.
candidate_raises(p) ==
    ~(PyIntOk(p.keeper_overall) /\ PyIntOk(p.round) /\ PyIntOk(p.pick))

compact_player(p) ==
    [name |-> p.player,
     keep_overall |-> PyInt(p.keeper_overall),
     keep_round |-> PyInt(p.round),
     keep_pick |-> PyInt(p.pick),
     keep_str |-> <<PyInt(p.round), PyInt(p.pick)>>]

NoEvent == [body |-> "unread", league |-> NoLeague,
            players |-> [list |-> TRUE, items |-> <<>>]]

NoRanking == [raised |-> FALSE, keep |-> <<>>, bench |-> <<>>]

Init ==
    /\ pc = "start"
    /\ event = NoEvent
    /\ compact_players = <<>>
    /\ next_player = 0
    /\ response = Outcome("none", NoContent)
    /\ called = FALSE
    /\ valued = FALSE
    /\ status = 0
    /\ error = ""
    /\ rank_pc = "idle"
    /\ data = NoContent
    /\ keepers_allowed = 0
    /\ teams = 0
    /\ ranked = NoRanking
    /\ reranked = <<>>
    /\ SpanIdle

\* return bad_request(msg)
BadRequest(msg) ==
    /\ status' = 400
    /\ error' = msg
    /\ pc' = "done"

\* An exception leaves the handler: no response is returned.
Unhandled ==
    /\ status' = 0
    /\ error' = ""
    /\ pc' = "crashed"

\* Lines 169-175: the body is missing or empty, is no JSON, is JSON but no
\* object (body.get raises), or is an object.
ParseBody ==
    /\ pc = "start"
    /\ \E b \in {"missing", "invalid", "other", "object"} :
          /\ event' = [event EXCEPT !.body = b]
          /\ CASE b = "missing" -> BadRequest("Missing body.")
               [] b = "invalid" -> BadRequest("Body must be valid JSON.")
               [] b = "other" -> Unhandled
               [] OTHER -> /\ pc' = "league"
                           /\ UNCHANGED <<status, error>>
    /\ UNCHANGED <<compact_players, next_player, response, called, valued,
                   span_vars, rank_vars>>

\* Lines 177-194: required keys, coercion with int(), range checks.
ValidateLeague ==
    /\ pc = "league"
    /\ \E lg \in Leagues :
          /\ event' = [event EXCEPT !.league = lg]
          /\ IF league_error(lg) # ""
             THEN /\ BadRequest(league_error(lg))
                  /\ UNCHANGED <<teams, keepers_allowed>>
             ELSE /\ teams' = PyInt(lg.teams)
                  /\ keepers_allowed' = PyInt(lg.keepers_allowed)
                  /\ pc' = "players"
                  /\ UNCHANGED <<status, error>>
    /\ UNCHANGED <<compact_players, next_player, response, called, valued,
                   span_vars, rank_pc, data, ranked, reranked>>

\* Lines 178, 196-197: the players member must be a non-empty list.
CheckPlayers ==
    /\ pc = "players"
    /\ \E pl \in PlayerInputs :
          /\ event' = [event EXCEPT !.players = pl]
          /\ IF ~pl.list \/ pl.items = <<>>
             THEN /\ BadRequest("players array is required and must be non-empty.")
                  /\ UNCHANGED next_player
             ELSE /\ pc' = "candidates"
                  /\ next_player' = 1
                  /\ UNCHANGED <<status, error>>
    /\ UNCHANGED <<compact_players, response, called, valued, span_vars, rank_vars>>

\* Lines 202-220: one iteration of the loop over the players.
NormalizeCandidate ==
    /\ pc = "candidates"
    /\ LET p == event.players.items[next_player]
       IN  IF lacks_member(p)
           THEN /\ BadRequest("Each player needs: player (name), meta.round, meta.pick, keeper_overall.")
                /\ UNCHANGED <<compact_players, next_player>>
           ELSE IF candidate_raises(p)
           THEN /\ Unhandled
                /\ UNCHANGED <<compact_players, next_player>>
           ELSE /\ compact_players' = Append(compact_players, compact_player(p))
                /\ next_player' = next_player + 1
                /\ pc' = IF next_player = Len(event.players.items)
                         THEN "generate" ELSE "candidates"
                /\ UNCHANGED <<status, error>>
    /\ UNCHANGED <<event, response, called, valued, span_vars, rank_vars>>

\* Lines 300-310: the external generation call, given the league summary and
\* compact_players.
Generate ==
    /\ pc = "generate"
    /\ called' = TRUE
    /\ \E r \in Outcomes : response' = r
    /\ pc' = "respond"
    /\ UNCHANGED <<event, compact_players, next_player, valued, status, error,
                   span_vars, rank_vars>>

\* Lines 311-330: json.loads, the ranking step, and the response; any exception
\* of the try block gives the generic 500.
Respond ==
    /\ pc = "respond"
    /\ pc' = "done"
    /\ IF response.kind # "json"
       THEN /\ status' = 500
            /\ error' = Generic
            /\ UNCHANGED <<valued, data, ranked>>
       ELSE LET r == normalize_value_and_sort_weighted(response.content,
                                                       keepers_allowed, teams)
            IN  /\ valued' = TRUE
                /\ data' = response.content
                /\ IF r.raised
                   THEN /\ status' = 500
                        /\ error' = Generic
                        /\ UNCHANGED ranked
                   ELSE /\ status' = 200
                        /\ error' = ""
                        /\ ranked' = r
    /\ UNCHANGED <<event, compact_players, next_player, response, called,
                   span_vars, rank_pc, keepers_allowed, teams, reranked>>

Next ==
    \/ ParseBody
    \/ ValidateLeague
    \/ CheckPlayers
    \/ NormalizeCandidate
    \/ Generate
    \/ Respond

Spec == Init /\ [][Next]_vars

----------------------------------------------------------------------------
\* Reference definitions used by the properties of SpecSpan

\* Sum of weight_for_round(round_from_overall(p)) over the picks lo < p <= hi.
RECURSIVE PickSum(_, _, _)
PickSum(lo, hi, t) ==
    IF hi <= lo THEN 0
    ELSE weight_for_round(round_from_overall(hi, t)) + PickSum(lo, hi - 1, t)

\* The spans (lo1, lo1+n] and (lo2, lo2+n] cover the same multiset of rounds.
\* Rounds are non-decreasing along a span, so the multisets are equal exactly
\* when the rounds agree position by position.
SameRounds(lo1, lo2, n, t) ==
    \A i \in 1..n :
        round_from_overall(lo1 + i, t) = round_from_overall(lo2 + i, t)

\* The round from which weight_for_round stays at its floor:
\* 0.60 - 0.01 * (r - 20) <= 0.55 from r = 25 on.
FloorRound == 25

SpanDone == span_pc = "done"

\* C1: for adp >= 1, keep >= 1, teams >= 1 the round-chunked result equals the
\* signed pick-by-pick sum of the round weights over (min, max], and is 0 when
\* keep = adp.
C1_ChunkedEqualsPickSum ==
    (SpanDone /\ adp_overall >= 1 /\ keep_overall >= 1) =>
        /\ keep_overall = adp_overall => span_value = 0
        /\ keep_overall > adp_overall =>
              span_value = PickSum(adp_overall, keep_overall, span_teams)
        /\ keep_overall < adp_overall =>
              span_value = 0 - PickSum(keep_overall, adp_overall, span_teams)

\* C1 witness: a span with a first partial round, a full middle round and a
\* last partial round has been summed.
C1_Witness ==
    /\ SpanDone /\ adp_overall >= 1 /\ span_teams >= 2
    /\ pick_in_round(adp_overall, span_teams) < span_teams
    /\ round_from_overall(keep_overall, span_teams)
          > round_from_overall(adp_overall, span_teams) + 1
    /\ span_value > 0

\* The later equal-length spans the computed span (adp, keep] is compared with.
LaterStarts == (adp_overall + 1)..(MaxPick - (keep_overall - adp_overall))

SpanForward == SpanDone /\ adp_overall >= 1 /\ keep_overall > adp_overall

\* C2 (as claimed): an equal-length span starting later that does not cover the
\* same multiset of rounds is worth strictly less, in every round.
C2_StrictEarlierPreference ==
    SpanForward =>
        \A lo2 \in LaterStarts :
            LET n == keep_overall - adp_overall
            IN  ~SameRounds(adp_overall, lo2, n, span_teams) =>
                    span_value > weighted_span_sum(lo2, lo2 + n, span_teams)

\* C2 (amended): the later span is never worth more, and is worth strictly less
\* when the rounds differ and the earlier span starts before the floor round.
C2_EarlierPreference ==
    SpanForward =>
        \A lo2 \in LaterStarts :
            LET n == keep_overall - adp_overall
                later == weighted_span_sum(lo2, lo2 + n, span_teams)
            IN  /\ span_value >= later
                /\ ( /\ ~SameRounds(adp_overall, lo2, n, span_teams)
                     /\ round_from_overall(adp_overall + 1, span_teams) < FloorRound )
                   => span_value > later

\* C2 witness: a span lying beyond the weight table, before the floor round, is
\* compared with a later span over different rounds.
C2_Witness ==
    /\ SpanForward
    /\ round_from_overall(adp_overall + 1, span_teams) > Len(ROUND_WEIGHTS)
    /\ round_from_overall(adp_overall + 1, span_teams) < FloorRound
    /\ \E lo2 \in LaterStarts :
          /\ ~SameRounds(adp_overall, lo2, keep_overall - adp_overall, span_teams)
          /\ round_from_overall(lo2 + 1, span_teams) >= FloorRound

\* C11 (as claimed): for all integers a, b the value of (a, b) is the negative
\* of the value of (b, a), positive exactly when the keeper pick is later than
\* the ADP pick and negative exactly when it is earlier.
C11_SignSymmetryAllIntegers ==
    SpanDone =>
        /\ span_value = 0 - weighted_span_sum(keep_overall, adp_overall, span_teams)
        /\ (span_value > 0) <=> (keep_overall > adp_overall)
        /\ (span_value < 0) <=> (keep_overall < adp_overall)

\* C11 (amended): the symmetry holds for all integers; the value is positive
\* exactly when the keeper pick is later than the ADP pick and is at least 2,
\* negative exactly when it is earlier and the ADP pick is at least 2.  Picks
\* below 1 count as pick 1, so two picks that are both at most 1 give 0.
C11_SignSymmetry ==
    SpanDone =>
        /\ span_value = 0 - weighted_span_sum(keep_overall, adp_overall, span_teams)
        /\ (span_value > 0) <=> (keep_overall > adp_overall /\ keep_overall >= 2)
        /\ (span_value < 0) <=> (keep_overall < adp_overall /\ adp_overall >= 2)

\* C11 witness: a keeper pick earlier than the ADP pick, rounds apart, has been
\* valued negative.
C11_Witness ==
    /\ SpanDone
    /\ keep_overall >= 1
    /\ round_from_overall(keep_overall, span_teams)
          < round_from_overall(adp_overall, span_teams)
    /\ span_value < 0

\* C12: for adp >= 1 and keep2 > keep1 > adp with keep1 and keep2 in the same
\* round, the value of (adp, keep2) is strictly greater than that of
\* (adp, keep1), in every round.
C12_MonotoneWithinRound ==
    SpanForward =>
        \A keep2 \in (keep_overall + 1)..MaxPick :
            round_from_overall(keep2, span_teams)
                = round_from_overall(keep_overall, span_teams)
            => weighted_span_sum(adp_overall, keep2, span_teams) > span_value

\* C12 witness: a keeper pick in a round at the weight floor, with a later
\* pick of the same round to compare with, has been valued.
C12_Witness ==
    /\ SpanForward
    /\ round_from_overall(keep_overall, span_teams) > FloorRound
    /\ round_from_overall(adp_overall, span_teams)
          < round_from_overall(keep_overall, span_teams)
    /\ keep_overall + 1 <= MaxPick
    /\ round_from_overall(keep_overall + 1, span_teams)
          = round_from_overall(keep_overall, span_teams)

----------------------------------------------------------------------------
\* Properties of SpecRank

RankDone == rank_pc \in {"ranked", "reranked"}

Range(seq) == {seq[i] : i \in DOMAIN seq}

Players(seq) == {seq[i].player : i \in DOMAIN seq}

\* The entries of a response array that pass the numeric coercion.
Surviving(items) == {e \in Range(items) : coerces(e)}

IntOf(field) == PyInt(field)

AdjustedOf(e) == e.adjusted_value[1]

\* C3: every entry of the returned keep and bench carries the recomputed
\* value_vs_adp and adjusted_value, and none of the three recomputed fields
\* still holds what the collaborator supplied.
C3_Recomputed ==
    RankDone =>
        \A e \in Range(ranked.keep) \cup Range(ranked.bench) :
            /\ e.value_vs_adp =
                  Present(IntOf(e.keep_overall) - IntOf(e.estimated_adp_overall))
            /\ e.adjusted_value =
                  Present(weighted_span_sum(IntOf(e.estimated_adp_overall),
                                            IntOf(e.keep_overall), teams))
            /\ e.capital_weight # Supplied

\* C3 witness: the collaborator supplied its own values, and entries of both
\* arrays were returned.
C3_Witness ==
    /\ RankDone
    /\ ranked.keep # <<>> /\ ranked.bench # <<>>
    /\ \A e \in Range(data.keep.items) \cup Range(data.bench.items) :
          e.adjusted_value = Supplied

\* a may stand directly before b: by the field as it is in the entry
OrderedRaw(a, b) ==
    \/ AdjustedOf(a) > AdjustedOf(b)
    \/ /\ AdjustedOf(a) = AdjustedOf(b)
       /\ a.estimated_adp_overall.h <= b.estimated_adp_overall.h

\* a may stand directly before b: by the field coerced with int()
OrderedInt(a, b) ==
    \/ AdjustedOf(a) > AdjustedOf(b)
    \/ /\ AdjustedOf(a) = AdjustedOf(b)
       /\ IntOf(a.estimated_adp_overall) <= IntOf(b.estimated_adp_overall)

\* No entry moves between keep and bench.
ListsIndependent ==
    /\ Players(ranked.keep) \subseteq Players(data.keep.items)
    /\ Players(ranked.bench) \subseteq Players(data.bench.items)

C5_Truncation ==
    RankDone =>
        LET keepIn == Surviving(data.keep.items)
            benchIn == Surviving(data.bench.items)
        IN  /\ Len(ranked.keep) <= keepers_allowed
            /\ Len(ranked.keep) = Min(keepers_allowed, Cardinality(keepIn))
            /\ Cardinality(Players(ranked.keep)) = Len(ranked.keep)
            /\ Players(ranked.keep) \subseteq {e.player : e \in keepIn}
            /\ \A cut \in keepIn : \A e \in Range(ranked.keep) :
                  cut.player \notin Players(ranked.keep) =>
                      ~KeyGreater(sort_key(fix_entry(cut, teams)), sort_key(e))
            /\ ranked.keep = SubSeq(sort_desc(fix_list(data.keep.items, teams)),
                                    1, Len(ranked.keep))
            /\ Len(ranked.bench) = Cardinality(benchIn)
            /\ Players(ranked.bench) = {e.player : e \in benchIn}

\* C5 witness: more keep proposals survived than keepers are allowed, and the
\* best one was not the first in the response.
C5_Witness ==
    /\ RankDone
    /\ keepers_allowed >= 1
    /\ Cardinality(Surviving(data.keep.items)) > keepers_allowed
    /\ Len(ranked.keep) = keepers_allowed
    /\ ranked.keep[1].player # data.keep.items[1].player

\* C6: ranking the ranked output again, with the same keepers_allowed and teams,
\* returns the same lists: same entries, order and recomputed fields.
C6_Idempotent ==
    rank_pc = "reranked" => reranked = ranked

\* C6 witness: the output ranked again holds two entries tied on adjusted_value
\* and on int(estimated_adp_overall).
C6_Witness ==
    /\ rank_pc = "reranked"
    /\ Len(reranked.bench) = 2
    /\ sort_key(reranked.bench[1]) = sort_key(reranked.bench[2])
    /\ reranked.bench[1].estimated_adp_overall # reranked.bench[2].estimated_adp_overall

----------------------------------------------------------------------------
\* Properties of Spec

Returned == pc = "done"

Ended == pc \in {"done", "crashed"}

\* The league is invalid in the sense of the error taxonomy: a required key is
\* missing, a numeric member cannot be read as an integer, or a value is out of
\* range.
LeagueInvalid(lg) ==
    \/ \E v \in {lg.teams, lg.format, lg.qb_slots, lg.your_slot, lg.keepers_allowed} :
          v.k = "none"
    \/ \E v \in {lg.teams, lg.qb_slots, lg.your_slot, lg.keepers_allowed} :
          v.k = "bad"
    \/ IntOf(lg.teams) <= 0
    \/ IntOf(lg.your_slot) < 1
    \/ IntOf(lg.your_slot) > IntOf(lg.teams)
    \/ IntOf(lg.keepers_allowed) < 0

\* The candidate lacks its name, meta.round, meta.pick or keeper_overall.
Lacking(p) ==
    \/ p.player = ""
    \/ p.round.k = "none"
    \/ p.pick.k = "none"
    \/ p.keeper_overall.k = "none"

RequestInvalid ==
    \/ LeagueInvalid(event.league)
    \/ ~event.players.list
    \/ event.players.items = <<>>
    \/ \E i \in DOMAIN event.players.items : Lacking(event.players.items[i])

\* C7 (as claimed): a request with an invalid league, an empty players list or
\* a candidate lacking a required member ends in a 400 with a message, without
\* the external call, without the ranking step, and without any candidate
\* behind the first lacking one having been processed.
C7_ValidationPrecedesCall ==
    (Ended /\ event.body = "object" /\ RequestInvalid) =>
        /\ status = 400
        /\ error # ""
        /\ ~called
        /\ ~valued
        /\ \A i \in DOMAIN event.players.items :
              Lacking(event.players.items[i]) => Len(compact_players) < i

WellFormed(e) ==
    /\ e.keep_overall.k \in {"num", "str"}
    /\ e.estimated_adp_overall.k \in {"num", "str"}

\* The response is an object whose recommendations member is an object, and
\* neither keep nor bench is a value that cannot be iterated.
ShapeAccepted(d) ==
    /\ d.top = "object"
    /\ d.recs = "object"
    /\ d.keep.kind # "scalar"
    /\ d.bench.kind # "scalar"

\* C8: when an entry of the collaborator's keep or bench array is malformed,
\* the request still ends in a 200, no malformed entry is in the ranked output,
\* every other bench entry is, and keep holds min(keepers_allowed, well-formed
\* keep entries) of the well-formed keep entries.
C8_MalformedDropped ==
    ( /\ Returned /\ response.kind = "json"
      /\ ShapeAccepted(response.content)
      /\ \E e \in Range(response.content.keep.items)
                  \cup Range(response.content.bench.items) : ~WellFormed(e) )
    =>
        LET keepOk == {e.player : e \in {x \in Range(response.content.keep.items) :
                                            WellFormed(x)}}
            benchOk == {e.player : e \in {x \in Range(response.content.bench.items) :
                                             WellFormed(x)}}
        IN  /\ status = 200
            /\ error = ""
            /\ Players(ranked.bench) = benchOk
            /\ Len(ranked.bench) = Cardinality(benchOk)
            /\ Players(ranked.keep) \subseteq keepOk
            /\ Len(ranked.keep) = Min(keepers_allowed, Cardinality(keepOk))
            /\ Cardinality(Players(ranked.keep)) = Len(ranked.keep)

\* C8 witness: a keep array of a malformed and a well-formed entry was ranked,
\* and the well-formed entry is returned.
C8_Witness ==
    /\ Returned /\ status = 200
    /\ Len(response.content.keep.items) = 2
    /\ ~WellFormed(response.content.keep.items[1])
    /\ WellFormed(response.content.keep.items[2])
    /\ Players(ranked.keep) = {response.content.keep.items[2].player}

\* The collaborator failed in the sense of the claim: the call raised, the
\* content is no valid JSON, or the top-level shape is malformed.
ClaimedFailure ==
    \/ response.kind \in {"raises", "invalid"}
    \/ response.content.top # "object"
    \/ response.content.recs # "object"
    \/ response.content.keep.kind # "array"
    \/ response.content.bench.kind # "array"

\* The failures the handler answers with a 500.
HandledFailure ==
    \/ response.kind \in {"raises", "invalid"}
    \/ response.content.top # "object"
    \/ response.content.recs \in {"falsy", "other"}
    \/ /\ response.content.recs = "object"
       /\ \/ response.content.keep.kind = "scalar"
          \/ response.content.bench.kind = "scalar"

\* C9 (as claimed): every collaborator failure, a malformed top-level shape
\* included, ends in the generic 500 and never in a 200.
C9_FailureIsServerError ==
    (Returned /\ called /\ ClaimedFailure) =>
        /\ status = 500
        /\ error = Generic

\* C9 (amended): a raise, invalid JSON, a top level that is no object, a
\* recommendations member that is present but no object, or a keep or bench
\* that cannot be iterated ends in the generic 500 with no ranking; a missing
\* recommendations member and a keep or bench that is missing, null or a
\* string end in a 200 whose list for that member is empty.
C9_FailureHandling ==
    (Returned /\ called) =>
        /\ HandledFailure =>
              /\ status = 500
              /\ error = Generic
              /\ ranked = NoRanking
        /\ (ClaimedFailure /\ ~HandledFailure) =>
              /\ status = 200
              /\ (response.content.recs = "missing"
                  \/ response.content.keep.kind # "array") => ranked.keep = <<>>
              /\ (response.content.recs = "missing"
                  \/ response.content.bench.kind # "array") => ranked.bench = <<>>

\* C9 witness: the ranking step raised on a recommendations member that is
\* present but no object, and the handler answered 500.
C9_Witness ==
    /\ Returned /\ called /\ valued
    /\ response.content.top = "object"
    /\ response.content.recs = "falsy"
    /\ status = 500

\* C10 (as claimed): every candidate forwarded to the collaborator has positive
\* round, pick and overall with overall = (round - 1) * teams + pick.
C10_CandidatesConsistent ==
    called =>
        \A i \in DOMAIN compact_players :
            LET c == compact_players[i]
            IN  /\ c.keep_round >= 1
                /\ c.keep_pick >= 1
                /\ c.keep_overall >= 1
                /\ c.keep_overall = (c.keep_round - 1) * teams + c.keep_pick

====
